---- MODULE Spec2Model ----
(***************************************************************************)
(* Model of src/main.py (YoutubeScraper): the keyword/page/channel sweep   *)
(* of scrape_viewstats, the browser's tabs and focus as the Selenium       *)
(* driver keeps them, the tabular file and the remote sheet.               *)
(*                                                                         *)
(* The browser is a sequence of open tabs in the order they were opened    *)
(* (driver.window_handles) and a focus: the index of the window the driver *)
(* is switched to, 0 when that window was closed and no switch was made    *)
(* since (every command on it raises NoSuchWindow).                        *)
(***************************************************************************)
EXTENDS Naturals, Sequences, FiniteSets, TLC

\* ---------------------------------------------------------------- bounds
MaxKeywords == 2   \* keywords typed by the user
MaxHandles == 2    \* handles found on one listing page
MaxChannels == 2   \* handles found over the whole sweep
MaxExtraTabs == 4  \* tabs beside the search tab when the recovery routine is tried alone
MaxRows == 2       \* data rows of the file when the upload is tried alone
MaxTextLen == 7    \* characters of the about text when the email parser is tried alone

\* ------------------------------------------------------ program constants
LastPage == 3          \* range(1, 4)
Header == <<"ChannelName", "ChannelID", "Keyword", "Email">>
NameUnknown == "YouTubeChannelUnknown"     \* get_youtube_channel_name fallback
NameFailed == "ChannelRetrievalFailed"     \* name of the placeholder row

VARIABLES
    pc,           \* position in scrape_viewstats
    keywords,     \* keywords list returned by get_user_keywords
    kw,           \* index of the current keyword in keywords
    page,         \* current page, 1..3 (4: the page loop is over)
    noResult,     \* no_result_for_this_keyword
    channel_ids,  \* handles of the current listing page
    idx,          \* index of the current handle in channel_ids
    browser,      \* "none", "alive", "quit"
    tabs,         \* driver.window_handles, as the role of each tab
    focus,        \* index in tabs of the driver's current window, 0: closed
    fileExists,   \* os.path.exists(csv_file)
    csv,          \* rows of viewstats_data.csv
    sheetExists,  \* the sheet named SHEET_NAME exists in the spreadsheet
    sheet,        \* rows of that sheet
    uploads,      \* calls of upload_csv_to_google_spreadsheet so far
    flaky,        \* the driver's window switch may raise (swallowed)
    csv0,         \* rows of viewstats_data.csv when the run started
    \* history of the run, read by the properties only
    curHandle,    \* handle whose processing started last ("" before any)
    csvMark,      \* Len(csv) when that processing started
    uploadsMark,  \* uploads when that processing started
    path,         \* the way that processing went
    closed,       \* roles of the tabs closed during that processing, in order
    ytPage,       \* <<h2 text, about text>> of the YouTube page it opened
    loaded,       \* pages of the current keyword whose load was started
    noRes,        \* page of the current keyword that showed 'No result found'
                  \* (0: none did)
    covered,      \* keywords left with every page 1..3 loaded, or every
                  \* page up to the one that showed 'No result found'
    raised,       \* a listing page ended in the page handler (lines 435-437)
    discovered,   \* handles returned by the listing scans so far
    recorded,     \* records emitted so far (enriched or placeholder)
    attempts      \* calls of open_analytics_page so far, for each handle

vars == <<pc, keywords, kw, page, noResult, channel_ids, idx, browser, tabs,
          focus, fileExists, csv, sheetExists, sheet, uploads, flaky, csv0,
          curHandle, csvMark, uploadsMark, path, closed, ytPage, loaded,
          noRes, covered, raised, discovered, recorded, attempts>>

sweepVars == <<keywords, kw, page, noResult, channel_ids, idx>>
tabVars == <<browser, tabs, focus>>
sinkVars == <<fileExists, csv, sheetExists, sheet, uploads>>
runVars == <<flaky, csv0>>
chanVars == <<curHandle, csvMark, uploadsMark, path, closed, ytPage>>
pageVars == <<loaded, noRes, covered, raised>>
histVars == <<chanVars, pageVars, discovered, recorded, attempts>>

\* ------------------------------------------------------------ the inputs
OldRow == <<"OldChannel", "@old", "k0", <<>>>>
\* the file earlier runs left: none, or the header and a row
PreviousFiles == { <<>>, <<Header, OldRow>> }
\* the sheet an earlier run left when it uploaded
StaleSheet == <<Header, OldRow, OldRow, OldRow, OldRow>>
\* what the user types, split at the commas
KeywordPool == <<"k1", " k2 ", "k3", "k4">>
RawInputs ==
    { <<"">>, <<" ", "">>, <<" ">> \o SubSeq(KeywordPool, 1, MaxKeywords) }
AllHandles == <<"@a", "@b", "@c", "@d">>
Handles == { AllHandles[i] : i \in 1..Len(AllHandles) }
\* a text is the sequence of its characters; "a" stands for a letter, "1" for
\* a digit or '-', "%" for one of '_', '%', '+'
AboutText == <<"%", "@", "a", "@", "1", ".", "a", "a", ".", "1">>
\* what the YouTube page gives: <<h2 text, about text>>, "" and the empty
\* text for a missing header or about element
NoPage == <<"", <<>>>>
YoutubePages == { <<"Ch", AboutText>>, NoPage }

\* the sequences of 0..n elements of pool
Tables(pool, n) == UNION { [1..k -> pool] : k \in 0..n }

\* str.strip() on the tokens of the inputs
Strip(t) == CASE t = " " -> "" [] t = " k2 " -> "k2" [] OTHER -> t
NonEmpty(t) == t # ""

\* keywords_list = [k.strip() for k in raw.split(",") if k.strip()]
keywords_list(raw) == SelectSeq([i \in 1..Len(raw) |-> Strip(raw[i])], NonEmpty)

\* ------------------------------------------------------ the email pattern
\* the classes of r"[A-Za-z0-9._%+\-]+@[A-Za-z0-9.\-]+\.[A-Za-z]{2,}"
Letters == {"a"}
DomainChars == Letters \cup {"1", "."}
LocalChars == DomainChars \cup {"%"}
\* the characters of the texts the parser is tried on alone
TextChars == {"a", "%", ".", "@"}

\* the index after the longest run of characters of cls that starts at i
RECURSIVE RunEnd(_, _, _)
RunEnd(s, i, cls) ==
    IF i > Len(s) THEN i
    ELSE IF s[i] \notin cls THEN i
    ELSE RunEnd(s, i + 1, cls)

\* the domain given back from its greedy end: the last k in lo..k that holds
\* a '.' with two letters or more after it, 0 when there is none
RECURSIVE LastCut(_, _, _)
LastCut(s, k, lo) ==
    IF k < lo THEN 0
    ELSE IF s[k] = "." /\ RunEnd(s, k + 1, Letters) >= k + 3 THEN k
    ELSE LastCut(s, k - 1, lo)

\* the pattern matched at position i as re matches it: the index after the
\* match, 0 when there is none. The local part is the whole run before '@';
\* the domain is taken greedily and given back up to the last '.' that two
\* letters follow; the last part takes every letter that follows.
re_match_at(s, i) ==
    LET at == RunEnd(s, i, LocalChars)
    IN  IF at = i \/ at > Len(s) THEN 0
        ELSE IF s[at] # "@" THEN 0
        ELSE LET cut == LastCut(s, RunEnd(s, at + 1, DomainChars) - 1, at + 2)
             IN  IF cut = 0 THEN 0 ELSE RunEnd(s, cut + 1, Letters)

\* the matches of re.findall from position i on: <<start, end>> of each, the
\* scan resuming after a match
RECURSIVE re_findall(_, _)
re_findall(s, i) ==
    IF i > Len(s) THEN <<>>
    ELSE IF re_match_at(s, i) = 0 THEN re_findall(s, i + 1)
    ELSE <<<<i, re_match_at(s, i) - 1>>>> \o re_findall(s, re_match_at(s, i))

\* a parser that matches at the start of the text only, as re.match does
parse_email_anchored(raw_text) ==
    IF re_match_at(raw_text, 1) = 0 THEN <<>>
    ELSE SubSeq(raw_text, 1, re_match_at(raw_text, 1) - 1)

\* parse_email_from_text: matches[0] of re.findall, "" when there is no match
parse_email_from_text(raw_text) ==
    LET matches == re_findall(raw_text, 1)
    IN  IF matches = <<>> THEN <<>>
        ELSE SubSeq(raw_text, matches[1][1], matches[1][2])

\* ------------------------------------------------------------- the driver
RemoveAt(s, i) == [j \in 1..(Len(s) - 1) |-> IF j < i THEN s[j] ELSE s[j + 1]]

\* the outcomes of driver.switch_to.window inside switch_to_new_tab and
\* switch_to_first_tab: it switches, or (flaky driver) raises and is swallowed
SwitchOutcomes == IF flaky THEN {TRUE, FALSE} ELSE {TRUE}

\* a switch that takes window_handles[0] where the last window is meant
switch_to_oldest_tab(t, f, ok) == IF ok /\ Len(t) > 0 THEN 1 ELSE f

\* switch_to_new_tab: the focus after it
switch_to_new_tab(t, f, ok) == IF ok /\ Len(t) > 0 THEN Len(t) ELSE f

\* switch_to_first_tab: the focus after it
switch_to_first_tab(t, f, ok) == IF ok /\ Len(t) > 0 THEN 1 ELSE f

\* a close that takes the first window instead of the current one
driver_close_first(t, f) == RemoveAt(t, 1)

\* driver.close(): the tabs after the focused window is closed (f # 0)
driver_close(t, f) == RemoveAt(t, f)

\* a loop that closes the oldest extra window first
RECURSIVE close_extra_tabs_oldest_first(_, _)
close_extra_tabs_oldest_first(t, order) ==
    IF Len(t) > 1
    THEN close_extra_tabs_oldest_first(RemoveAt(t, 2), Append(order, t[2]))
    ELSE [tabs |-> t, closed |-> order]

\* while len(driver.window_handles) > 1: switch to the last window, close it
RECURSIVE close_extra_tabs(_, _)
close_extra_tabs(t, order) ==
    IF Len(t) > 1
    THEN close_extra_tabs(driver_close(t, Len(t)), Append(order, t[Len(t)]))
    ELSE [tabs |-> t, closed |-> order]

\* a recovery with 'if' for 'while': one window is closed at most
reset_to_search_once(t, f, ok) ==
    LET t1 == IF Len(t) > 1 THEN driver_close(t, Len(t)) ELSE t
        f1 == IF Len(t) > 1 THEN 0 ELSE f
    IN  [tabs |-> t1,
         closed |-> IF Len(t) > 1 THEN <<t[Len(t)]>> ELSE <<>>,
         focus |-> switch_to_first_tab(t1, f1, ok)]

\* the recovery routine of the channel handler: the loop, then
\* switch_to_first_tab
reset_to_search(t, f, ok) ==
    LET r == close_extra_tabs(t, <<>>)
        f1 == IF Len(t) > 1 THEN 0 ELSE f
    IN  [tabs |-> r.tabs, closed |-> r.closed,
         focus |-> switch_to_first_tab(r.tabs, f1, ok)]

\* --------------------------------------------------------------- the sink
\* a write on the file opened in mode 'w'
save_to_csv_overwrite(file, rows) == rows

\* writer.writerows(rows) on the file opened in append mode
save_to_csv(file, rows) == file \o rows

\* worksheet.update('A1', data): data laid over the grid from the top-left cell
sheet_update(grid, data) ==
    [i \in 1..(IF Len(grid) > Len(data) THEN Len(grid) ELSE Len(data)) |->
        IF i <= Len(data) THEN data[i] ELSE grid[i]]

\* an upload that adds the file's rows after the rows the sheet holds
upload_append_log(exists, grid, file) == grid \o file

\* an upload that writes over the sheet it finds instead of replacing it
upload_over_existing_sheet(exists, grid, file) == sheet_update(grid, file)

\* upload_csv_to_google_spreadsheet: the sheet is deleted if it exists, a
\* fresh one is added and the whole file is written to it
upload_csv_to_google_spreadsheet(exists, grid, file) ==
    LET fresh == <<>>   \* sh.add_worksheet, after sh.del_worksheet if it existed
    IN  sheet_update(fresh, file)

\* ------------------------------------------------------------------ Init
InitCommon ==
    /\ pc = "start"
    /\ keywords = <<>>
    /\ kw = 1
    /\ page = 1
    /\ noResult = FALSE
    /\ channel_ids = <<>>
    /\ idx = 1
    /\ browser = "none"
    /\ tabs = <<>>
    /\ focus = 0
    /\ csv \in PreviousFiles
    /\ csv0 = csv
    /\ fileExists = (csv # <<>>)
    /\ sheetExists = (Len(csv) > 1)
    /\ sheet = IF sheetExists THEN StaleSheet ELSE <<>>
    /\ uploads = 0
    /\ curHandle = ""
    /\ csvMark = 0
    /\ uploadsMark = 0
    /\ path = "none"
    /\ closed = <<>>
    /\ ytPage = NoPage
    /\ loaded = {}
    /\ noRes = 0
    /\ covered = 0
    /\ raised = FALSE
    /\ discovered = 0
    /\ recorded = 0
    /\ attempts = [h \in Handles |-> 0]

Init == InitCommon /\ flaky = FALSE

InitFlaky == InitCommon /\ flaky = TRUE

\* ------------------------------------------------------------- start-up
\* an initialisation that opens the file in mode 'w' whether it exists or not
initialize_csv_always(exists, file) == <<Header>>

\* the rows of the file after initialize_csv: the header is written when the
\* file does not exist, an existing file is left as it is
initialize_csv_file(exists, file) == IF exists THEN file ELSE <<Header>>

\* initialize_csv(csv_file), line 328
initialize_csv ==
    /\ pc = "start"
    /\ pc' = "input"
    /\ fileExists' = TRUE
    /\ csv' = initialize_csv_file(fileExists, csv)
    /\ UNCHANGED <<sweepVars, tabVars, sheetExists, sheet, uploads, runVars, histVars>>

\* keywords = get_user_keywords(), line 329: exit(0) when the list is empty
get_user_keywords ==
    /\ pc = "input"
    /\ \E raw \in RawInputs :
         LET ks == keywords_list(raw)
         IN  IF ks = <<>>
             THEN pc' = "exited" /\ UNCHANGED keywords
             ELSE pc' = "setup" /\ keywords' = ks
    /\ UNCHANGED <<kw, page, noResult, channel_ids, idx, tabVars, sinkVars, runVars,
                   histVars>>

\* driver = setup_browser(), line 332: the browser starts with one tab, or
\* the driver cannot be created and the run ends with the exception
setup_browser ==
    /\ pc = "setup"
    /\ \E ok \in BOOLEAN :
         IF ok
         THEN /\ pc' = "keyword"
              /\ browser' = "alive"
              /\ tabs' = <<"search">>
              /\ focus' = 1
         ELSE /\ pc' = "crashed"
              /\ UNCHANGED tabVars
    /\ UNCHANGED <<sweepVars, sinkVars, runVars, histVars>>

\* ------------------------------------------------------------ the sweep
Min(a, b) == IF a < b THEN a ELSE b

\* the loads of a keyword cover its pages 1..upto
Covers(pages, upto) == pages = 1..upto

\* the history of the last handle is dropped when the channel loop is left
ForgetChannel ==
    /\ curHandle' = ""
    /\ csvMark' = 0
    /\ uploadsMark' = 0
    /\ path' = "none"
    /\ closed' = <<>>
    /\ ytPage' = NoPage

\* 'No result found' taken as a page without handles: continue
after_no_result_continue(k, p) == [pc |-> "page", kw |-> k, page |-> p + 1]

\* where the sweep goes after 'No result found' on page p of keyword k:
\* break (line 357), then line 440 moves to the next keyword
after_no_result(k, p) == [pc |-> "keyword", kw |-> k + 1, page |-> p]

\* a page handler that gives the keyword up
after_page_exception_abort(k, p) == [pc |-> "keyword", kw |-> k + 1, page |-> p]

\* a page without its handler: the exception leaves scrape_viewstats
after_page_exception_propagates(k, p) == [pc |-> "crashed", kw |-> k, page |-> p]

\* where the sweep goes after the page handler of lines 435-437: continue
after_page_exception(k, p) == [pc |-> "page", kw |-> k, page |-> p + 1]

\* for keyword in keywords, lines 335-339; after the last one, line 444
next_keyword ==
    /\ pc = "keyword"
    /\ IF kw <= Len(keywords)
       THEN /\ pc' = "page"
            /\ noResult' = FALSE
            /\ page' = 1
            /\ loaded' = {}
            /\ noRes' = 0
       ELSE /\ pc' = "quit"
            /\ UNCHANGED <<noResult, page, loaded, noRes>>
    /\ UNCHANGED <<keywords, kw, channel_ids, idx, tabVars, sinkVars, runVars,
                   chanVars, covered, raised, discovered, recorded, attempts>>

\* one pass of 'for page in range(1, 4)' up to the channel loop, lines
\* 340-365, with the page handler of lines 435-437
load_listing ==
    /\ pc = "page"
    /\ page <= LastPage
    /\ loaded' = loaded \cup {page}
    /\ \E outcome \in IF focus = 0 THEN {"raise"} ELSE {"raise", "noresult", "list"} :
         CASE outcome = "raise" ->
                \* driver.get, the wait for the body or the read of it raises
                LET to == after_page_exception(kw, page)
                IN  /\ pc' = to.pc
                    /\ kw' = to.kw
                    /\ page' = to.page
                    /\ raised' = TRUE
                    /\ covered' = IF to.kw # kw /\ Covers(loaded', LastPage)
                                  THEN covered + 1 ELSE covered
                    /\ UNCHANGED <<noResult, channel_ids, idx, noRes, discovered>>
           [] outcome = "noresult" ->
                LET to == after_no_result(kw, page)
                IN  /\ noResult' = TRUE
                    /\ noRes' = page
                    /\ pc' = to.pc
                    /\ kw' = to.kw
                    /\ page' = to.page
                    /\ covered' = IF to.kw # kw /\ Covers(loaded', page)
                                  THEN covered + 1 ELSE covered
                    /\ UNCHANGED <<channel_ids, idx, raised, discovered>>
           [] outcome = "list" ->
                \* get_all_channel_ids_on_page; an empty list: continue
                \E n \in 0..Min(MaxHandles, MaxChannels - discovered) :
                   /\ channel_ids' = SubSeq(AllHandles, 1, n)
                   /\ discovered' = discovered + n
                   /\ IF n = 0
                      THEN page' = page + 1 /\ UNCHANGED <<pc, idx>>
                      ELSE pc' = "channel" /\ idx' = 1 /\ UNCHANGED page
                   /\ UNCHANGED <<kw, noResult, noRes, covered, raised>>
    /\ ForgetChannel
    /\ UNCHANGED <<keywords, tabVars, sinkVars, runVars, recorded, attempts>>

\* the page loop is over, lines 439-441: on to the next keyword
end_pages ==
    /\ pc = "page"
    /\ page > LastPage
    /\ kw' = kw + 1
    /\ pc' = "keyword"
    /\ covered' = IF Covers(loaded, IF noRes = 0 THEN LastPage ELSE noRes)
                  THEN covered + 1 ELSE covered
    /\ ForgetChannel
    /\ UNCHANGED <<keywords, page, noResult, channel_ids, idx, tabVars, sinkVars,
                   runVars, loaded, noRes, raised, discovered, recorded, attempts>>

\* the channel loop is over: on to the next page
end_channels ==
    /\ pc = "channel"
    /\ idx > Len(channel_ids)
    /\ page' = page + 1
    /\ pc' = "page"
    /\ ForgetChannel
    /\ UNCHANGED <<keywords, kw, noResult, channel_ids, idx, tabVars, sinkVars,
                   runVars, pageVars, discovered, recorded, attempts>>

\* ------------------------------------------------- one channel's pipeline
\* the role of the focused tab, "closed" when the window is gone
Focused == IF focus = 0 THEN "closed" ELSE tabs[focus]

\* a failed open_analytics_page tried again on the same handle
after_analytics_failure_retry(i) == [pc |-> "channel", idx |-> i]

\* a failed open_analytics_page handed to the channel handler
after_analytics_failure_recover(i) == [pc |-> "recover", idx |-> i]

\* where the channel loop goes when open_analytics_page is False, lines
\* 373-375: continue with the next handle
after_analytics_failure(i) == [pc |-> "channel", idx |-> i + 1]

\* lines 368-375: the next handle, and open_analytics_page on it. The script
\* raises (False), opens the tab, or returns with no tab having appeared.
open_analytics_page ==
    /\ pc = "channel"
    /\ idx <= Len(channel_ids)
    /\ curHandle' = channel_ids[idx]
    /\ csvMark' = Len(csv)
    /\ uploadsMark' = uploads
    /\ closed' = <<>>
    /\ ytPage' = NoPage
    /\ attempts' = [attempts EXCEPT ![channel_ids[idx]] = @ + 1]
    /\ \E outcome \in IF channel_ids[idx] = "" \/ focus = 0
                      THEN {"raise"} ELSE {"raise", "opened", "blocked"} :
         CASE outcome = "raise" ->
                /\ path' = "analytics_failed"
                /\ idx' = after_analytics_failure(idx).idx
                /\ pc' = after_analytics_failure(idx).pc
                /\ UNCHANGED tabs
           [] outcome = "opened" ->
                /\ path' = "running"
                /\ tabs' = Append(tabs, "analytics")
                /\ pc' = "wait_analytics"
                /\ UNCHANGED idx
           [] outcome = "blocked" ->
                /\ path' = "running"
                /\ pc' = "wait_analytics"
                /\ UNCHANGED <<idx, tabs>>
    /\ UNCHANGED <<keywords, kw, page, noResult, channel_ids, browser, focus,
                   sinkVars, runVars, pageVars, discovered, recorded>>

\* lines 378-380: the wait for a second window, then switch_to_new_tab
wait_analytics ==
    /\ pc = "wait_analytics"
    /\ IF Len(tabs) > 1
       THEN /\ \E ok \in SwitchOutcomes : focus' = switch_to_new_tab(tabs, focus, ok)
            /\ pc' = "check_no_data"
       ELSE /\ pc' = "recover"
            /\ UNCHANGED focus
    /\ UNCHANGED <<sweepVars, browser, tabs, sinkVars, runVars, histVars>>

\* lines 383-387: check_no_data_found, and the skip when it is True
check_no_data_found ==
    /\ pc = "check_no_data"
    /\ \E found \in IF Focused = "analytics" THEN BOOLEAN ELSE {FALSE} :
         IF found
         THEN /\ tabs' = driver_close(tabs, focus)
              /\ closed' = Append(closed, Focused)
              /\ \E ok \in SwitchOutcomes :
                   focus' = switch_to_first_tab(tabs', 0, ok)
              /\ path' = "no_data"
              /\ idx' = idx + 1
              /\ pc' = "channel"
         ELSE /\ pc' = "open_youtube"
              /\ UNCHANGED <<tabs, focus, closed, path, idx>>
    /\ UNCHANGED <<keywords, kw, page, noResult, channel_ids, browser, sinkVars,
                   runVars, curHandle, csvMark, uploadsMark, ytPage, pageVars, discovered,
                   recorded, attempts>>

\* a failed open_youtube_tab handed to the channel handler
youtube_failure_raises == "recover"

\* what lines 391-395 do when open_youtube_tab is False: close the tab, go
\* back to the first one and continue with the next handle
youtube_failure_route == "skip"

\* lines 390-395: open_youtube_tab, and the skip when it is False. The click
\* opens a new tab, or is made and no tab appears, or the link is not there.
open_youtube_tab ==
    /\ pc = "open_youtube"
    /\ \E outcome \in IF Focused = "analytics"
                      THEN {"fail", "newtab", "sametab"} ELSE {"fail"} :
         CASE outcome = "fail" ->
                IF focus = 0 \/ youtube_failure_route = "recover"
                THEN \* driver.close() raises on the closed window
                     /\ pc' = "recover"
                     /\ UNCHANGED <<tabs, focus, closed, path, idx, ytPage>>
                ELSE /\ tabs' = driver_close(tabs, focus)
                     /\ closed' = Append(closed, Focused)
                     /\ \E ok \in SwitchOutcomes :
                          focus' = switch_to_first_tab(tabs', 0, ok)
                     /\ path' = "youtube_failed"
                     /\ idx' = idx + 1
                     /\ pc' = "channel"
                     /\ UNCHANGED ytPage
           [] outcome = "newtab" ->
                /\ tabs' = Append(tabs, "youtube")
                /\ ytPage' \in YoutubePages
                /\ pc' = "wait_youtube"
                /\ UNCHANGED <<focus, closed, path, idx>>
           [] outcome = "sametab" ->
                /\ pc' = "wait_youtube"
                /\ UNCHANGED <<tabs, focus, closed, path, idx, ytPage>>
    /\ UNCHANGED <<keywords, kw, page, noResult, channel_ids, browser, sinkVars,
                   runVars, curHandle, csvMark, uploadsMark, pageVars, discovered,
                   recorded, attempts>>

\* lines 397-399: the wait for a third window, then switch_to_new_tab
wait_youtube ==
    /\ pc = "wait_youtube"
    /\ IF Len(tabs) > 2
       THEN /\ \E ok \in SwitchOutcomes : focus' = switch_to_new_tab(tabs, focus, ok)
            /\ pc' = "extract"
       ELSE /\ pc' = "recover"
            /\ UNCHANGED focus
    /\ UNCHANGED <<sweepVars, browser, tabs, sinkVars, runVars, histVars>>

\* row = [[f"...", channel_id, keyword, ""]], line 432
placeholder_row(h, k) == <<NameFailed, h, k, <<>>>>

\* get_youtube_channel_name: the h2 text, or the fallback name
get_youtube_channel_name(h2) == IF h2 = "" THEN NameUnknown ELSE h2

\* the rows the success path appends for one row, lines 410-411:
\* save_to_csv writes it and save_to_csv_and_update_sheet writes it again
success_rows(r) == <<r, r>>

\* lines 402-411: the name and the about text are read from the YouTube page,
\* the email is parsed from the text and
\* the row is written by save_to_csv, then written and uploaded by
\* save_to_csv_and_update_sheet (lines 458-475). Either write and the upload
\* may raise.
extract_and_save ==
    /\ pc = "extract"
    /\ \/ \* save_to_csv of line 410 raises: nothing was written
          /\ pc' = "recover"
          /\ UNCHANGED <<csv, recorded, uploads, sheetExists, sheet>>
       \/ \E outcome \in {"append_raises", "upload_raises", "ok"} :
            LET yt == IF Focused = "youtube" THEN ytPage ELSE NoPage
                r == <<get_youtube_channel_name(yt[1]), channel_ids[idx],
                       keywords[kw], parse_email_from_text(yt[2])>>
                once == save_to_csv(csv, SubSeq(success_rows(r), 1, 1))
                twice == save_to_csv(csv, success_rows(r))
            IN  CASE outcome = "append_raises" ->
                       /\ csv' = once
                       /\ recorded' = recorded + 1
                       /\ pc' = "recover"
                       /\ UNCHANGED <<uploads, sheetExists, sheet>>
                  [] outcome = "upload_raises" ->
                       /\ csv' = twice
                       /\ recorded' = recorded + 1
                       /\ uploads' = uploads + 1
                       /\ pc' = "recover"
                       /\ UNCHANGED <<sheetExists, sheet>>
                  [] outcome = "ok" ->
                       /\ csv' = twice
                       /\ recorded' = recorded + 1
                       /\ uploads' = uploads + 1
                       /\ sheet' = upload_csv_to_google_spreadsheet(sheetExists, sheet, twice)
                       /\ sheetExists' = TRUE
                       /\ pc' = "close_youtube"
    /\ UNCHANGED <<sweepVars, tabVars, fileExists, runVars, chanVars, pageVars,
                   discovered, attempts>>

\* lines 414-416: the YouTube tab is closed, switch_to_new_tab
close_youtube ==
    /\ pc = "close_youtube"
    /\ IF focus = 0
       THEN /\ pc' = "recover"
            /\ UNCHANGED <<tabs, focus, closed>>
       ELSE /\ tabs' = driver_close(tabs, focus)
            /\ closed' = Append(closed, Focused)
            /\ \E ok \in SwitchOutcomes : focus' = switch_to_new_tab(tabs', 0, ok)
            /\ pc' = "close_analytics"
    /\ UNCHANGED <<sweepVars, browser, sinkVars, runVars, curHandle, csvMark,
                   uploadsMark, ytPage, path, pageVars, discovered, recorded, attempts>>

\* lines 419-421: the analytics tab is closed, switch_to_first_tab
close_analytics ==
    /\ pc = "close_analytics"
    /\ IF focus = 0
       THEN /\ pc' = "recover"
            /\ UNCHANGED <<tabs, focus, closed, path, idx>>
       ELSE /\ tabs' = driver_close(tabs, focus)
            /\ closed' = Append(closed, Focused)
            /\ \E ok \in SwitchOutcomes : focus' = switch_to_first_tab(tabs', 0, ok)
            /\ path' = "success"
            /\ idx' = idx + 1
            /\ pc' = "channel"
    /\ UNCHANGED <<keywords, kw, page, noResult, channel_ids, browser, sinkVars,
                   runVars, curHandle, csvMark, uploadsMark, ytPage, pageVars, discovered,
                   recorded, attempts>>

\* lines 423-433: the channel handler. The extra tabs are closed, the
\* placeholder row is written; when that write raises, the page handler of
\* lines 435-437 takes over.
recover ==
    /\ pc = "recover"
    /\ \E ok \in SwitchOutcomes :
         LET r == reset_to_search(tabs, focus, ok)
         IN  /\ tabs' = r.tabs
             /\ focus' = r.focus
             /\ closed' = closed \o r.closed
    /\ path' = "exception"
    /\ \E written \in BOOLEAN :
         IF written
         THEN /\ csv' = save_to_csv(csv, <<placeholder_row(channel_ids[idx], keywords[kw])>>)
              /\ recorded' = recorded + 1
              /\ idx' = idx + 1
              /\ pc' = "channel"
              /\ UNCHANGED <<kw, page, covered, raised>>
         ELSE LET to == after_page_exception(kw, page)
              IN  /\ pc' = to.pc
                  /\ kw' = to.kw
                  /\ page' = to.page
                  /\ raised' = TRUE
                  /\ covered' = IF to.kw # kw /\ Covers(loaded, LastPage)
                                THEN covered + 1 ELSE covered
                  /\ UNCHANGED <<csv, recorded, idx>>
    /\ UNCHANGED <<keywords, noResult, channel_ids, browser, fileExists,
                   sheetExists, sheet, uploads, runVars, curHandle, csvMark,
                   uploadsMark, ytPage, loaded, noRes, discovered, attempts>>

\* ------------------------------------------------------------ the end
\* driver.quit(), line 444
driver_quit ==
    /\ pc = "quit"
    /\ browser' = "quit"
    /\ tabs' = <<>>
    /\ focus' = 0
    /\ pc' = "final_upload"
    /\ UNCHANGED <<sweepVars, sinkVars, runVars, histVars>>

\* lines 449-452: the upload of the whole file; its exception ends the run
final_upload ==
    /\ pc = "final_upload"
    /\ uploads' = uploads + 1
    /\ \E ok \in BOOLEAN :
         IF ok
         THEN /\ sheet' = upload_csv_to_google_spreadsheet(sheetExists, sheet, csv)
              /\ sheetExists' = TRUE
              /\ pc' = "done"
         ELSE /\ pc' = "crashed"
              /\ UNCHANGED <<sheetExists, sheet>>
    /\ UNCHANGED <<sweepVars, tabVars, fileExists, csv, runVars, histVars>>

Next ==
    \/ initialize_csv
    \/ get_user_keywords
    \/ setup_browser
    \/ next_keyword
    \/ load_listing
    \/ end_pages
    \/ end_channels
    \/ open_analytics_page
    \/ wait_analytics
    \/ check_no_data_found
    \/ open_youtube_tab
    \/ wait_youtube
    \/ extract_and_save
    \/ close_youtube
    \/ close_analytics
    \/ recover
    \/ driver_quit
    \/ final_upload

Spec == Init /\ [][Next]_vars

\* the same program on a driver whose window switches may raise
SpecFlaky == InitFlaky /\ [][Next]_vars

\* the program runs on: a step that can be taken is taken (the interpreter
\* executes the next statement, every wait of the code has a timeout)
SpecLive == Init /\ [][Next]_vars /\ WF_vars(Next)

\* the recovery routine alone, entered with any tabs behind the search tab
\* and any focus
ExtraTabs == UNION { [1..n -> {"analytics", "youtube"}] : n \in 0..MaxExtraTabs }

InitReset ==
    /\ pc = "recover"
    /\ keywords = <<"k1">>
    /\ kw = 1
    /\ page = 1
    /\ noResult = FALSE
    /\ channel_ids = <<"@a">>
    /\ idx = 1
    /\ browser = "alive"
    /\ tabs \in { <<"search">> \o x : x \in ExtraTabs }
    /\ focus \in 0..Len(tabs)
    /\ fileExists = TRUE
    /\ csv = <<Header>>
    /\ csv0 = csv
    /\ sheetExists = FALSE
    /\ sheet = <<>>
    /\ uploads = 0
    /\ flaky = FALSE
    /\ curHandle = "@a"
    /\ csvMark = 1
    /\ uploadsMark = 0
    /\ path = "running"
    /\ closed = <<>>
    /\ ytPage = NoPage
    /\ loaded = {1}
    /\ noRes = 0
    /\ covered = 0
    /\ raised = FALSE
    /\ discovered = 1
    /\ recorded = 0
    /\ attempts = [h \in Handles |-> 0]

SpecReset == InitReset /\ [][recover]_vars

\* the upload alone, called on any file and any sheet left by earlier uploads

InitUpload ==
    /\ pc = "final_upload"
    /\ keywords = <<"k1">>
    /\ kw = 2
    /\ page = 1
    /\ noResult = FALSE
    /\ channel_ids = <<>>
    /\ idx = 1
    /\ browser = "quit"
    /\ tabs = <<>>
    /\ focus = 0
    /\ fileExists = TRUE
    /\ csv \in { <<Header>> \o t : t \in Tables({OldRow, placeholder_row("@a", "k1")}, MaxRows) }
    /\ csv0 = csv
    /\ sheetExists \in BOOLEAN
    /\ sheet \in IF sheetExists THEN Tables({Header, OldRow}, MaxRows + 1) ELSE {<<>>}
    /\ uploads = 0
    /\ flaky = FALSE
    /\ curHandle = ""
    /\ csvMark = 0
    /\ uploadsMark = 0
    /\ path = "none"
    /\ closed = <<>>
    /\ ytPage = NoPage
    /\ loaded = {}
    /\ noRes = 0
    /\ covered = 1
    /\ raised = FALSE
    /\ discovered = 0
    /\ recorded = 0
    /\ attempts = [h \in Handles |-> 0]

SpecUpload == InitUpload /\ [][final_upload]_vars

\* the extraction alone, on a YouTube page with any about text
InitEmail ==
    /\ pc = "extract"
    /\ keywords = <<"k1">>
    /\ kw = 1
    /\ page = 1
    /\ noResult = FALSE
    /\ channel_ids = <<"@a">>
    /\ idx = 1
    /\ browser = "alive"
    /\ tabs = <<"search", "analytics", "youtube">>
    /\ focus = 3
    /\ fileExists = TRUE
    /\ csv = <<Header>>
    /\ csv0 = csv
    /\ sheetExists = FALSE
    /\ sheet = <<>>
    /\ uploads = 0
    /\ flaky = FALSE
    /\ curHandle = "@a"
    /\ csvMark = 1
    /\ uploadsMark = 0
    /\ path = "running"
    /\ closed = <<>>
    /\ ytPage \in { <<"Ch", t>> : t \in Tables(TextChars, MaxTextLen) }
    /\ loaded = {1}
    /\ noRes = 0
    /\ covered = 0
    /\ raised = FALSE
    /\ discovered = 1
    /\ recorded = 0
    /\ attempts = [h \in Handles |-> IF h = "@a" THEN 1 ELSE 0]

SpecEmail == InitEmail /\ [][extract_and_save]_vars

\* ------------------------------------------------------------ properties
Reverse(s) == [i \in 1..Len(s) |-> s[Len(s) + 1 - i]]

\* the processing of curHandle is over and the next handle (or page) is due
ChannelEnded == curHandle # "" /\ pc \in {"channel", "page"}

\* the rows the file gained during the processing of curHandle
RowsOfHandle == SubSeq(csv, csvMark + 1, Len(csv))

SingleSearchTab == tabs = <<"search">> /\ focus = 1

\* C1: when the processing of a handle is over, the file has gained exactly
\* one row for it, or none when its analytics page showed 'No data found'.
C1_ExactlyOneRecordPerHandle ==
    ChannelEnded => Len(RowsOfHandle) = (IF path = "no_data" THEN 0 ELSE 1)

C3_OneRowOnSuccess ==
    (pc = "channel" /\ path = "success") =>
        /\ Len(RowsOfHandle) = 1
        /\ RowsOfHandle[1][2] = curHandle
        /\ RowsOfHandle[1][4] = parse_email_from_text(ytPage[2])

C5_SinglePlaceholderOnException ==
    (pc = "channel" /\ path = "exception") =>
        /\ SingleSearchTab
        /\ Len(RowsOfHandle) = 1
        /\ RowsOfHandle[1][1] = NameFailed

\* C6: the recovery routine, from any tabs and focus the browser can have,
\* leaves the search tab alone and focused; it closes the extra tabs from the
\* most recently opened one; run again, it changes nothing. The channel
\* handler's step is that routine.
ResetResultOf(t, f) ==
    LET r == reset_to_search(t, f, TRUE)
    IN  /\ r.tabs = <<"search">>
        /\ r.focus = 1
        /\ r.closed = Reverse(Tail(t))
        /\ reset_to_search(r.tabs, r.focus, TRUE)
             = [tabs |-> r.tabs, closed |-> <<>>, focus |-> r.focus]

C8_NoResultSkipsKeyword ==
    /\ [](/\ noResult <=> noRes # 0
          /\ noRes # 0 =>
               /\ pc \in {"keyword", "quit", "final_upload", "done", "crashed"}
               /\ \A p \in loaded : p <= noRes
          /\ (pc = "page" /\ loaded = {}) => (page = 1 /\ ~noResult))
    /\ [][(noRes = 0 /\ noRes' # 0) =>
            /\ pc' = "keyword"
            /\ kw' = kw + 1
            /\ UNCHANGED <<csv, tabs, focus, discovered, recorded>>]_vars

\* 'No result found' showed on page 2 of the first keyword and the second
\* keyword is due
C8_Witness == pc = "keyword" /\ noRes = 2 /\ kw = 2 /\ Len(keywords) = 2

\* C9: when the sweep is over, every keyword was left with each of its pages
\* 1..3 loaded, or each page up to the one that showed 'No result found',
\* whatever exceptions the page handler took.
C9_PageExceptionsSkipOnlyThePage ==
    pc \in {"quit", "final_upload", "done"} =>
        /\ kw = Len(keywords) + 1
        /\ covered = Len(keywords)

\* the sweep is over and the page handler ran on its way
C9_Witness == pc = "quit" /\ raised /\ covered = Len(keywords) /\ noRes = 0

\* C10, as claimed: the upload is called once for every record emitted and
\* once more at the end, so the sheet holds the whole file after each emitted
\* record and at normal completion.
C10_UploadPerRecord ==
    /\ pc = "done" => (uploads = recorded + 1 /\ sheet = csv)
    /\ (ChannelEnded /\ Len(csv) > csvMark) => sheet = csv

\* C10, amended: the upload is called once for every handle that completes
\* the success path, after its row is appended, never for a placeholder row,
\* and once more after the last keyword; after each success-path record and
\* at normal completion the sheet holds the whole file.
C10_UploadPerSuccess ==
    /\ [](/\ (pc = "channel" /\ path = "success") =>
               (uploads = uploadsMark + 1 /\ sheet = csv)
          /\ curHandle # "" => uploads <= uploadsMark + 1
          /\ pc = "done" => sheet = csv)
    /\ [][/\ uploads' \in {uploads, uploads + 1}
          /\ uploads' # uploads =>
                \/ pc = "extract" /\ Len(csv') > Len(csv)
                \/ pc = "final_upload"
          /\ pc = "final_upload" => uploads' = uploads + 1
          /\ pc = "recover" => UNCHANGED <<uploads, sheet>>
          /\ sheet' # sheet => sheet' = csv']_vars

\* the run is over with one enriched record, one placeholder record and two
\* uploads
C10_Witness ==
    /\ pc = "done"
    /\ recorded = 2
    /\ uploads = 2
    /\ Len(csv) = 4
    /\ csv[4][1] = NameFailed

\* a step in which upload_csv_to_google_spreadsheet was called and raised
UploadFailedStep == uploads' = uploads + 1 /\ pc' \notin {"close_youtube", "done"}

\* C11: a failed upload, per record or final, ends the run with the
\* exception: the channel handler does not take it, no placeholder row is
\* written because of it and no further handle is processed.
C11_UploadFailureIsFatal ==
    /\ [][UploadFailedStep => pc' = "crashed"]_vars
    /\ [][pc = "crashed" => pc' = "crashed"]_vars

\* C12, as claimed: when no keyword is supplied the run exits with code 0,
\* the file is neither created nor modified, no browser is started and no
\* upload is made.
C12_NoKeywordNoOutput ==
    pc = "exited" =>
        /\ csv = csv0
        /\ fileExists <=> csv0 # <<>>
        /\ browser = "none"
        /\ uploads = 0

\* C12, amended: when no keyword is supplied the run exits with code 0 right
\* after initialize_csv: a missing file has been created with the header row
\* alone, an existing file is as it was, no browser is started and no upload
\* is made.
C12_NoKeywordHeaderOnly ==
    /\ [](pc = "exited" =>
            /\ fileExists
            /\ csv = (IF csv0 = <<>> THEN <<Header>> ELSE csv0)
            /\ browser = "none"
            /\ tabs = <<>>
            /\ uploads = 0)
    /\ [][pc' = "exited" => (pc = "input" /\ UNCHANGED <<sinkVars, tabVars>>)]_vars
    /\ [][pc = "exited" => pc' = "exited"]_vars

\* the run has exited for want of a keyword and left a file it created
C12_Witness == pc = "exited" /\ csv0 = <<>> /\ csv = <<Header>>

\* C13: a run that has started the browser ends it with driver.quit, however
\* the channels, pages and uploads of the sweep went: the run never ends, by
\* completion or by an exception, with the browser alive, and the browser
\* does not stay alive for ever.
C13_BrowserAlwaysQuit ==
    /\ [](pc \in {"done", "crashed", "exited"} => browser # "alive")
    /\ [][browser = "alive" => browser' \in {"alive", "quit"}]_vars
    /\ (browser = "alive") ~> (browser = "quit")

\* the browser was quit after a sweep in which a page raised, a handle ended
\* in the channel handler and a per-record upload was made
C13_Witness ==
    /\ browser = "quit"
    /\ raised
    /\ uploads > 0
    /\ recorded > 1

\* C14: a successful upload leaves in the sheet exactly the rows of the file,
\* whether a sheet existed before or not and whatever it held, and a second
\* upload of the same file leaves the same sheet as the first.
C14_UploadFullReplace ==
    /\ [](LET once == upload_csv_to_google_spreadsheet(sheetExists, sheet, csv)
          IN  /\ once = csv
              /\ upload_csv_to_google_spreadsheet(TRUE, once, csv) = once)
    /\ [][(pc = "final_upload" /\ pc' = "done") => (sheetExists' /\ sheet' = csv)]_vars

\* the upload has replaced the sheet by a file of one data row
C14_Witness ==
    /\ pc = "done"
    /\ uploads = 1
    /\ sheet = <<Header, OldRow>>
    /\ csv = sheet

\* the email grammar: a local part, '@', a domain, '.', two letters or more
IsEmail(w) ==
    \E p \in 2..Len(w), d \in 3..Len(w) :
        /\ w[p] = "@"
        /\ \A k \in 1..(p - 1) : w[k] \in LocalChars
        /\ d > p + 1
        /\ w[d] = "."
        /\ \A k \in (p + 1)..(d - 1) : w[k] \in DomainChars
        /\ Len(w) >= d + 2
        /\ \A k \in (d + 1)..Len(w) : w[k] \in Letters

\* some substring of x that starts before position i is an email
EmailStartsBefore(x, i) ==
    \E b \in 1..(i - 1), e \in 1..Len(x) : b <= e /\ IsEmail(SubSeq(x, b, e))

\* r is an email found in x with no email starting to its left, or r is
\* empty and x holds no email
LeftmostEmail(x, r) ==
    IF r = <<>>
    THEN ~EmailStartsBefore(x, Len(x) + 1)
    ELSE /\ IsEmail(r)
         /\ \E i \in 1..Len(x) :
              /\ SubSeq(x, i, i + Len(r) - 1) = r
              /\ ~EmailStartsBefore(x, i)

\* C15: parse_email_from_text returns the leftmost substring of the text that
\* is an email, or the empty text when there is none, and parsing its result
\* again returns that result; the row written holds that result.
C15_ParseEmailLeftmostIdempotent ==
    LET r == parse_email_from_text(ytPage[2])
    IN  /\ LeftmostEmail(ytPage[2], r)
        /\ parse_email_from_text(r) = r
        /\ (curHandle # "" /\ Len(csv) > csvMark /\ csv[Len(csv)][1] # NameFailed) =>
              csv[Len(csv)][4] = r

\* the row was written for a text in which an email follows a '@' that
\* starts none
C15_Witness ==
    /\ pc = "close_youtube"
    /\ ytPage[2] = <<"@", "a", "@", "a", ".", "a", "a">>
    /\ csv[Len(csv)][4] = <<"a", "@", "a", ".", "a", "a">>

\* the number of open tabs of a role
TabsOf(role) == Cardinality({ i \in 1..Len(tabs) : tabs[i] = role })

\* C16: while the browser is alive the search tab is open, also after a tab
\* switch that failed silently, at most one analytics tab and at most one
\* YouTube tab are open, and so one to three tabs are open.
C16_SearchTabAlwaysOpen ==
    browser = "alive" =>
        /\ TabsOf("search") = 1
        /\ TabsOf("analytics") <= 1
        /\ TabsOf("youtube") <= 1
        /\ Len(tabs) \in 1..3

C18_AnalyticsFailureSkipsHandle ==
    /\ [](path = "analytics_failed" =>
            /\ pc = "channel"
            /\ Len(csv) = csvMark
            /\ uploads = uploadsMark
            /\ closed = <<>>
            /\ SingleSearchTab)
    /\ [][(pc = "channel" /\ idx <= Len(channel_ids) /\ pc' # "wait_analytics") =>
            /\ pc' = "channel"
            /\ path' = "analytics_failed"
            /\ idx' = idx + 1
            /\ UNCHANGED <<csv, sheet, uploads, recorded, tabs, focus, browser,
                           channel_ids, page, kw>>]_vars

\* the first handle of a page of two was skipped and the second is due
C18_Witness ==
    /\ pc = "channel"
    /\ path = "analytics_failed"
    /\ idx = 2
    /\ Len(channel_ids) = 2
    /\ recorded = 0

\* the place of a position in one channel's pipeline, 0 outside it
PipelineStage(p) ==
    CASE p = "wait_analytics" -> 1
      [] p = "check_no_data" -> 2
      [] p = "open_youtube" -> 3
      [] p = "wait_youtube" -> 4
      [] p = "extract" -> 5
      [] p = "close_youtube" -> 6
      [] p = "close_analytics" -> 7
      [] p = "recover" -> 8
      [] OTHER -> 0

RECURSIVE TotalAttempts(_)
TotalAttempts(n) ==
    IF n = 0 THEN 0 ELSE attempts[AllHandles[n]] + TotalAttempts(n - 1)

\* C19, as claimed: over a whole sweep open_analytics_page is called at most
\* once for a given handle, whatever the listings hold.
C19_EachHandleOpenedOnce == \A h \in Handles : attempts[h] <= 1

\* C19, amended: nothing is retried. open_analytics_page is called at most
\* once for each entry of each listing, a handle's pipeline only moves
\* forward, and when it ends, by success, skip or failure, the next entry of
\* the listing or the next page is due; a handle listed again is attempted
\* again.
C19_NoRetryPerListingEntry ==
    /\ [](TotalAttempts(Len(AllHandles)) <= discovered)
    /\ [][attempts' # attempts =>
            /\ pc = "channel"
            /\ idx <= Len(channel_ids)
            /\ attempts' = [attempts EXCEPT ![channel_ids[idx]] = @ + 1]
            /\ pc' = "channel" => idx' = idx + 1]_vars
    /\ [][PipelineStage(pc) > 0 =>
            \/ PipelineStage(pc') > PipelineStage(pc)
            \/ pc' = "channel" /\ idx' = idx + 1 /\ UNCHANGED <<channel_ids, page, kw>>
            \/ pc' = "page" /\ page' = page + 1 /\ kw' = kw]_vars
    /\ [][/\ kw' \in {kw, kw + 1}
          /\ (kw' = kw /\ page' # page) => (page' = page + 1 \/ page' = 1)
          /\ (idx' # idx /\ pc # "page") => idx' = idx + 1]_vars

\* the same handle was listed twice and attempted twice
C19_Witness ==
    /\ attempts["@a"] = 2
    /\ discovered = 2
    /\ pc = "channel"
    /\ idx = 2

IsPrefix(a, b) == Len(a) <= Len(b) /\ SubSeq(b, 1, Len(a)) = a

\* C20: the file only grows by whole rows added at its end, in a run and
\* from one run to the next: initialize_csv writes the header to a missing
\* file and leaves an existing file as it is, every other write keeps the
\* rows there are, so the header is the first row and no other row, and a
\* row once written stays as it is.
C20_FileAppendOnly ==
    /\ [](/\ IsPrefix(csv0, csv)
          /\ fileExists =>
               /\ csv[1] = Header
               /\ \A i \in 2..Len(csv) : Len(csv[i]) = 4 /\ csv[i][1] # Header[1])
    /\ [][/\ IsPrefix(csv, csv')
          /\ fileExists => fileExists'
          /\ pc = "start" => csv' = (IF fileExists THEN csv ELSE <<Header>>)]_vars

\* a run that found a file of an earlier run has ended: the file holds the
\* earlier rows, then two enriched rows and a placeholder row
C20_Witness ==
    /\ pc = "done"
    /\ csv0 = <<Header, OldRow>>
    /\ Len(csv) = 5
    /\ csv[5][1] = NameFailed

====
